---- MODULE Spec2Model ----
(***************************************************************************)
(* Portfolio API (src/main.py): administrator login, the bearer-token gate *)
(* of the protected routes, and the project / tech / blog-post routes over *)
(* the document store.                                                     *)
(*                                                                         *)
(* Text is modelled as a sequence of one-character strings, so that        *)
(* str.lower(), str.startswith() and str.split() are computed and not      *)
(* assumed.  A JWT in compact form is an opaque piece of text without      *)
(* spaces: it is modelled as a "blob" record that may end a text.  JSON    *)
(* and BSON values are tagged records [t |-> type, v |-> value].  Time is  *)
(* counted in minutes.                                                     *)
(***************************************************************************)
EXTENDS Integers, Sequences, FiniteSets, TLC

VARIABLES
    now,      \* datetime.utcnow(), in minutes
    db,       \* truth value of the store handle `db` (FALSE: no store configured)
    store,    \* the collections of the document store: name -> sequence of documents
    next_id,  \* the next identifier the store assigns
    held,     \* the token the client got from its latest successful login
    last      \* the latest request and the response it got

vars == <<now, db, store, next_id, held, last>>

(***************************************************************************)
(* Bounds of the model                                                     *)
(***************************************************************************)
TickStep == 360     \* minutes between two observations of the clock
MaxClock == 1080    \* the clock stops here
MaxDocs == 1        \* documents inserted under Spec
MaxProjects == 2    \* documents inserted under ProjectSpec
MaxPosts == 4       \* documents inserted under PostSpec

(***************************************************************************)
(* Text                                                                    *)
(***************************************************************************)
Upper == <<"A","B","C","D","E","F","G","H","I","J","K","L","M",
           "N","O","P","Q","R","S","T","U","V","W","X","Y","Z">>
Lower == <<"a","b","c","d","e","f","g","h","i","j","k","l","m",
           "n","o","p","q","r","s","t","u","v","w","x","y","z">>

UpperToLower ==
    [c \in {Upper[k] : k \in DOMAIN Upper} |->
        Lower[CHOOSE k \in DOMAIN Upper : Upper[k] = c]]

\* str.lower(), character by character
lower(s) ==
    [i \in DOMAIN s |->
        IF s[i] \in DOMAIN UpperToLower THEN UpperToLower[s[i]] ELSE s[i]]

\* s.startswith(prefix)
startswith(s, prefix) ==
    /\ Len(s) >= Len(prefix)
    /\ SubSeq(s, 1, Len(prefix)) = prefix

\* Tagged values
StrV(v) == [t |-> "str", v |-> v]
IntV(v) == [t |-> "int", v |-> v]
ListV(v) == [t |-> "list", v |-> v]
DateV(v) == [t |-> "datetime", v |-> v]
OidV(v) == [t |-> "oid", v |-> v]
\* A JSON number, kept as the text it was sent as
NumV(text) == [t |-> "int", v |-> text]
None == [t |-> "none", v |-> ""]

\* Python's ==, which is False (not an error) across types
PyEq(a, b) == a.t = b.t /\ a.v = b.v

\* dict helpers
Has(d, k) == k \in DOMAIN d
Get(d, k, default) == IF Has(d, k) THEN d[k] ELSE default
Put(d, k, v) == [x \in DOMAIN d \cup {k} |-> IF x = k THEN v ELSE d[x]]
Pop(d, k) == [x \in DOMAIN d \ {k} |-> d[x]]
Update(d, e) == [x \in DOMAIN d \cup DOMAIN e |-> IF x \in DOMAIN e THEN e[x] ELSE d[x]]

(***************************************************************************)
(* Auth / security setup (the defaults of the environment variables)       *)
(***************************************************************************)
SECRET_KEY == "super-secret-key-change"
ALGORITHM == "HS256"
ACCESS_TOKEN_EXPIRE_MINUTES == 60 * 12

ADMIN_EMAIL == <<"a","d","m","i","n","@","p","o","r","t","f","o","l","i","o",".","d","e","v">>
ADMIN_PASSWORD == "admin123"

\* pwd_context.hash: a salted one-way digest, one value per (salt, password)
pwd_context_hash(password) ==
    [scheme |-> "pbkdf2_sha256", salt |-> "salt", digest |-> <<"salt", password>>]

ADMIN_PASSWORD_HASH == pwd_context_hash(ADMIN_PASSWORD)

\* pwd_context.verify recomputes the digest with the salt of the stored hash
verify_password(plain_password, hashed_password) ==
    hashed_password.digest = <<hashed_password.salt, plain_password>>

(***************************************************************************)
(* Tokens                                                                  *)
(***************************************************************************)
NoBlob == [kind |-> "none"]
Garbage == [kind |-> "garbage"]
Jwt(key, alg, claims) == [kind |-> "jwt", key |-> key, alg |-> alg, claims |-> claims]

\* A piece of text: characters, then possibly a blob
Text(chars, blob) == [text |-> chars, blob |-> blob]

\* jwt.encode(claims, key, algorithm)
jwt_encode(claims, key, alg) == Jwt(key, alg, claims)

\* jwt.decode(token, key, algorithms): a JWTError (ok = FALSE) when the text
\* is not exactly one token, the signature does not verify under `key`, the
\* algorithm is not allowed, a registered claim is malformed ("sub" must be a
\* string, "exp" an integer) or the expiry has passed (exp < now).
jwt_decode(token, key, algorithms, clock) ==
    LET b == token.blob
        good ==
            /\ token.text = <<>>
            /\ b.kind = "jwt"
            /\ b.key = key
            /\ b.alg \in algorithms
            /\ (Has(b.claims, "exp") =>
                    (b.claims["exp"].t = "int" /\ ~(b.claims["exp"].v < clock)))
            /\ (Has(b.claims, "sub") => b.claims["sub"].t = "str")
    IN  IF good THEN [ok |-> TRUE, payload |-> b.claims]
        ELSE [ok |-> FALSE, payload |-> <<>>]

\* Mutant: the window counted in minutes where the code counts hours
create_access_token_short(data, clock) ==
    jwt_encode(Update(data, [exp |-> IntV(clock + 12)]), SECRET_KEY, ALGORITHM)

create_access_token(data, clock) ==
    LET expire == clock + ACCESS_TOKEN_EXPIRE_MINUTES
        to_encode == Update(data, [exp |-> IntV(expire)])
    IN  jwt_encode(to_encode, SECRET_KEY, ALGORITHM)

\* authorization.split(" ", 1)[1]: what follows the first space
AfterFirstSpace(a) ==
    LET i == CHOOSE k \in DOMAIN a.text :
                 a.text[k] = " " /\ \A j \in 1..(k - 1) : a.text[j] # " "
    IN  Text(SubSeq(a.text, i + 1, Len(a.text)), a.blob)

Bearer == <<"b","e","a","r","e","r"," ">>

\* The `authorization` header: absent (None), or a text
NoHeader == [present |-> FALSE, text |-> <<>>, blob |-> NoBlob]
Header(chars, blob) == [present |-> TRUE, text |-> chars, blob |-> blob]

\* `not authorization`: None or the empty string
Falsy(a) == ~a.present \/ (a.text = <<>> /\ a.blob = NoBlob)

\* Mutant: the claims are read without the token being verified
get_current_admin_unverified(authorization, clock) ==
    IF Falsy(authorization) \/ ~startswith(lower(authorization.text), Bearer)
    THEN [status |-> 401, detail |-> "Not authenticated", identity |-> <<>>]
    ELSE LET b == AfterFirstSpace(authorization).blob
         IN  IF b.kind # "jwt"
             THEN [status |-> 401, detail |-> "Invalid token", identity |-> <<>>]
             ELSE IF ~PyEq(Get(b.claims, "sub", None), StrV(ADMIN_EMAIL))
                     \/ ~PyEq(Get(b.claims, "role", None), StrV("admin"))
                  THEN [status |-> 403, detail |-> "Forbidden", identity |-> <<>>]
                  ELSE [status |-> 200, detail |-> "",
                        identity |-> [email |-> b.claims["sub"], role |-> b.claims["role"]]]

\* Mutant: the handler of JWTError also catches the 403
get_current_admin_catch_all(authorization, clock) ==
    IF Falsy(authorization) \/ ~startswith(lower(authorization.text), Bearer)
    THEN [status |-> 401, detail |-> "Not authenticated", identity |-> <<>>]
    ELSE LET dec == jwt_decode(AfterFirstSpace(authorization), SECRET_KEY, {ALGORITHM}, clock)
         IN  IF dec.ok /\ PyEq(Get(dec.payload, "sub", None), StrV(ADMIN_EMAIL))
                       /\ PyEq(Get(dec.payload, "role", None), StrV("admin"))
             THEN [status |-> 200, detail |-> "",
                   identity |-> [email |-> dec.payload["sub"], role |-> dec.payload["role"]]]
             ELSE [status |-> 401, detail |-> "Invalid token", identity |-> <<>>]

get_current_admin(authorization, clock) ==
    IF Falsy(authorization) \/ ~startswith(lower(authorization.text), Bearer)
    THEN [status |-> 401, detail |-> "Not authenticated", identity |-> <<>>]
    ELSE LET token == AfterFirstSpace(authorization)
             dec == jwt_decode(token, SECRET_KEY, {ALGORITHM}, clock)
         IN  IF ~dec.ok
             THEN [status |-> 401, detail |-> "Invalid token", identity |-> <<>>]
             ELSE LET email == Get(dec.payload, "sub", None)
                      role == Get(dec.payload, "role", None)
                  IN  IF ~PyEq(email, StrV(ADMIN_EMAIL)) \/ ~PyEq(role, StrV("admin"))
                      THEN [status |-> 403, detail |-> "Forbidden", identity |-> <<>>]
                      ELSE [status |-> 200, detail |-> "",
                            identity |-> [email |-> email, role |-> role]]

(***************************************************************************)
(* Content DTOs: each field with its type, whether it is required, and its *)
(* default.  One field of each kind of the source's models is kept.        *)
(***************************************************************************)
Field(name, type, required, default) ==
    [name |-> name, type |-> type, required |-> required, default |-> default]

TechItem == <<
    Field("name", "str", TRUE, None),
    Field("category", "str?", FALSE, StrV("general")),
    Field("level", "str?", FALSE, None) >>

Project == <<
    Field("title", "str", TRUE, None),
    Field("slug", "str", TRUE, None),
    Field("summary", "str", TRUE, None),
    Field("tags", "list", FALSE, ListV(<<>>)),
    Field("cover", "str?", FALSE, None) >>

BlogPost == <<
    Field("title", "str", TRUE, None),
    Field("slug", "str", TRUE, None),
    Field("excerpt", "str", TRUE, None),
    Field("content", "str", TRUE, None),
    Field("read_time", "int", FALSE, IntV(4)) >>

\* Whether a JSON value is accepted for a field type
TypeOk(type, value) ==
    CASE type = "str" -> value.t = "str"
      [] type = "str?" -> value.t \in {"str", "none"}
      [] type = "int" -> value.t = "int"
      [] type = "list" -> value.t = "list"

\* The request-shape check of a body against a model
Valid(Model, body) ==
    \A i \in DOMAIN Model :
        IF Has(body, Model[i].name) THEN TypeOk(Model[i].type, body[Model[i].name])
        ELSE ~Model[i].required

\* model.model_dump(): every field of the model, defaults filled in
model_dump(Model, body) ==
    [k \in {Model[i].name : i \in DOMAIN Model} |->
        IF Has(body, k) THEN body[k]
        ELSE Model[CHOOSE i \in DOMAIN Model : Model[i].name = k].default]

(***************************************************************************)
(* The document store                                                      *)
(***************************************************************************)
Collections == {"project", "techitem", "blogpost"}

\* Whether a document matches an equality filter
Matches(doc, filter) ==
    \A k \in DOMAIN filter : Has(doc, k) /\ doc[k] = filter[k]

\* Index of the first document of a collection matching a filter, 0 if none
FirstMatch(coll, filter) ==
    IF \E i \in DOMAIN coll : Matches(coll[i], filter)
    THEN CHOOSE i \in DOMAIN coll :
             /\ Matches(coll[i], filter)
             /\ \A j \in 1..(i - 1) : ~Matches(coll[j], filter)
    ELSE 0

RemoveAt(coll, i) == SubSeq(coll, 1, i - 1) \o SubSeq(coll, i + 1, Len(coll))

\* database.get_documents(collection_name, filter_dict): the matching
\* documents, in the store's order
get_documents(st, collection_name, filter) ==
    LET RECURSIVE Sel(_)
        Sel(c) == IF c = <<>> THEN <<>>
                  ELSE (IF Matches(Head(c), filter) THEN <<Head(c)>> ELSE <<>>)
                       \o Sel(Tail(c))
    IN  Sel(st[collection_name])

\* database.create_document(collection_name, data): inserts the model's
\* fields, stamped with the creation time, under a fresh identifier, and
\* returns the identifier as a string
create_document(st, id, clock, collection_name, data) ==
    LET doc == Update(data, [_id |-> OidV(id), created_at |-> DateV(clock)])
    IN  [store |-> [st EXCEPT ![collection_name] = Append(@, doc)],
         id |-> ToString(id)]

\* str(x) for an identifier or None
str(x) == IF x.t = "none" THEN "None" ELSE ToString(x.v)

\* Mutant: the internal identifier is copied and not removed
Normalize_keep(it) == Put(it, "id", StrV(str(Get(it, "_id", None))))

\* it["id"] = str(it.get("_id")); it.pop("_id", None)
Normalize(it) == Pop(Put(it, "id", StrV(str(Get(it, "_id", None)))), "_id")

NormalizeAll(items) == [i \in DOMAIN items |-> Normalize(items[i])]

\* items.sort(key=..., reverse=True): stable, largest key first
RECURSIVE SortDesc(_, _)
SortDesc(items, clock) ==
    LET key(x) == Get(x, "created_at", DateV(clock)).v
        RECURSIVE Ins(_, _)
        Ins(x, sorted) ==
            IF sorted = <<>> THEN <<x>>
            ELSE IF key(Head(sorted)) >= key(x)
                 THEN <<Head(sorted)>> \o Ins(x, Tail(sorted))
                 ELSE <<x>> \o sorted
    IN  IF items = <<>> THEN <<>>
        ELSE Ins(items[Len(items)], SortDesc(SubSeq(items, 1, Len(items) - 1), clock))

\* items[:n]
Slice(items, n) == SubSeq(items, 1, IF Len(items) < n THEN Len(items) ELSE n)

(***************************************************************************)
(* Routes.  Each yields the response and the store after the request.      *)
(***************************************************************************)
Reply(status, result, st, id, stage, read) ==
    [status |-> status, result |-> result, store |-> st, next_id |-> id,
     stage |-> stage, read |-> read, admin |-> <<>>]

HTTPException(status, detail, stage) ==
    Reply(status, [detail |-> detail], store, next_id, stage, FALSE)

\* Mutant: the email compared as typed
login_case_sensitive(data) ==
    IF data.email # ADMIN_EMAIL \/ ~verify_password(data.password, ADMIN_PASSWORD_HASH)
    THEN HTTPException(401, "Invalid credentials", "handler")
    ELSE Reply(200, [access_token |-> create_access_token(
                         [sub |-> StrV(ADMIN_EMAIL), role |-> StrV("admin")], now),
                     token_type |-> "bearer"],
               store, next_id, "handler", FALSE)

\* POST /api/auth/login
login(data) ==
    IF lower(data.email) # lower(ADMIN_EMAIL)
       \/ ~verify_password(data.password, ADMIN_PASSWORD_HASH)
    THEN HTTPException(401, "Invalid credentials", "handler")
    ELSE LET token == create_access_token(
                          [sub |-> StrV(ADMIN_EMAIL), role |-> StrV("admin")], now)
         IN  Reply(200, [access_token |-> token, token_type |-> "bearer"],
                   store, next_id, "handler", FALSE)

\* GET /api/projects
list_projects ==
    LET items == IF db THEN get_documents(store, "project", <<>>) ELSE <<>>
    IN  Reply(200, NormalizeAll(items), store, next_id, "handler", db)

\* GET /api/projects/{slug}
get_project(slug) ==
    LET items == IF db THEN get_documents(store, "project", [slug |-> StrV(slug)])
                 ELSE <<>>
    IN  IF items = <<>>
        THEN Reply(404, [detail |-> "Not found"], store, next_id, "handler", db)
        ELSE Reply(200, Normalize(items[1]), store, next_id, "handler", db)

\* GET /api/tech
list_tech ==
    LET items == IF db THEN get_documents(store, "techitem", <<>>) ELSE <<>>
    IN  Reply(200, NormalizeAll(items), store, next_id, "handler", db)

\* Mutant: the posts in the store's order
list_posts_unsorted ==
    LET items == IF db THEN get_documents(store, "blogpost", <<>>) ELSE <<>>
    IN  Reply(200, Slice(NormalizeAll(items), 3), store, next_id, "handler", db)

\* GET /api/posts
list_posts ==
    LET items == IF db THEN get_documents(store, "blogpost", <<>>) ELSE <<>>
    IN  Reply(200, Slice(SortDesc(NormalizeAll(items), now), 3),
              store, next_id, "handler", db)

\* The body of a creating route: database.create_document, which raises
\* when no store is configured
Create(collection_name, Model, body) ==
    IF ~db THEN HTTPException(500, "Database not available", "handler")
    ELSE LET r == create_document(store, next_id, now, collection_name,
                                  model_dump(Model, body))
         IN  Reply(200, [id |-> r.id], r.store, next_id + 1, "handler", TRUE)

\* Mutant: the body is not checked against the model
Protected_unchecked(authorization, Model, body, handled) ==
    LET admin == get_current_admin(authorization, now)
    IN  IF admin.status # 200
        THEN HTTPException(admin.status, admin.detail, "gate")
        ELSE [handled EXCEPT !.admin = admin.identity]

\* A route declared with a body model and Depends(get_current_admin): the
\* dependency runs first and its HTTPException ends the request; then the
\* body is checked against the model; then the route's function runs.
Protected(authorization, Model, body, handled) ==
    LET admin == get_current_admin(authorization, now)
    IN  IF admin.status # 200
        THEN HTTPException(admin.status, admin.detail, "gate")
        ELSE IF ~Valid(Model, body)
             THEN [HTTPException(422, "Unprocessable Entity", "validation")
                       EXCEPT !.admin = admin.identity]
             ELSE [handled EXCEPT !.admin = admin.identity]

\* POST /api/projects
create_project(authorization, project) ==
    Protected(authorization, Project, project, Create("project", Project, project))

\* Mutant: only the fields the request sent are set (exclude_unset)
update_project_partial(authorization, slug, project) ==
    Protected(authorization, Project, project,
        IF ~db THEN HTTPException(500, "Database not available", "handler")
        ELSE LET i == FirstMatch(store["project"], [slug |-> StrV(slug)])
             IN  IF i = 0
                 THEN Reply(404, [detail |-> "Not found"], store, next_id,
                            "handler", TRUE)
                 ELSE Reply(200, [ok |-> TRUE],
                            [store EXCEPT !["project"][i] =
                                Put(Update(@, project), "updated_at", DateV(now))],
                            next_id, "handler", TRUE))

\* PUT /api/projects/{slug}
update_project(authorization, slug, project) ==
    Protected(authorization, Project, project,
        IF ~db THEN HTTPException(500, "Database not available", "handler")
        ELSE LET i == FirstMatch(store["project"], [slug |-> StrV(slug)])
             IN  IF i = 0
                 THEN Reply(404, [detail |-> "Not found"], store, next_id,
                            "handler", TRUE)
                 ELSE LET set == Update(store["project"][i],
                                        model_dump(Project, project))
                          res == Put(set, "updated_at", DateV(now))
                      IN  Reply(200, [ok |-> TRUE],
                                [store EXCEPT !["project"][i] = res],
                                next_id, "handler", TRUE))

\* Mutant: every matching project is deleted (delete_many)
delete_project_many(authorization, slug) ==
    Protected(authorization, <<>>, <<>>,
        IF ~db THEN HTTPException(500, "Database not available", "handler")
        ELSE LET keep == {i \in DOMAIN store["project"] :
                             ~Matches(store["project"][i], [slug |-> StrV(slug)])}
                 RECURSIVE Kept(_)
                 Kept(i) == IF i > Len(store["project"]) THEN <<>>
                            ELSE (IF i \in keep THEN <<store["project"][i]>> ELSE <<>>)
                                 \o Kept(i + 1)
             IN  Reply(200, [deleted |-> Len(store["project"]) - Cardinality(keep)],
                       [store EXCEPT !["project"] = Kept(1)],
                       next_id, "handler", TRUE))

\* DELETE /api/projects/{slug}
delete_project(authorization, slug) ==
    Protected(authorization, <<>>, <<>>,
        IF ~db THEN HTTPException(500, "Database not available", "handler")
        ELSE LET i == FirstMatch(store["project"], [slug |-> StrV(slug)])
                 deleted_count == IF i = 0 THEN 0 ELSE 1
             IN  Reply(200, [deleted |-> deleted_count],
                       IF i = 0 THEN store
                       ELSE [store EXCEPT !["project"] = RemoveAt(@, i)],
                       next_id, "handler", TRUE))

\* Mutant: the route declared without its dependency
create_tech_open(authorization, item) ==
    IF Valid(TechItem, item) THEN Create("techitem", TechItem, item)
    ELSE HTTPException(422, "Unprocessable Entity", "validation")

\* POST /api/tech
create_tech(authorization, item) ==
    Protected(authorization, TechItem, item, Create("techitem", TechItem, item))

\* POST /api/posts
create_post(authorization, post) ==
    Protected(authorization, BlogPost, post, Create("blogpost", BlogPost, post))

(***************************************************************************)
(* Requests                                                                *)
(***************************************************************************)
UpperAdmin == <<"A","D","M","I","N","@","p","o","r","t","f","o","l","i","o",".","d","e","v">>
OtherEmail == <<"u","s","e","r","@","x",".","d","e","v">>

Emails == {ADMIN_EMAIL, UpperAdmin, OtherEmail, <<>>}
Passwords == {ADMIN_PASSWORD, "Admin123", "wrong", ""}

AdminClaims == [sub |-> StrV(ADMIN_EMAIL), role |-> StrV("admin")]

\* Tokens that were not issued by login
Forged ==
    { Jwt("other-secret", ALGORITHM, Update(AdminClaims, [exp |-> IntV(now + 1)])),
      Jwt("other-secret", ALGORITHM,
          [sub |-> StrV(OtherEmail), role |-> StrV("user"), exp |-> IntV(now + 1)]),
      Jwt(SECRET_KEY, "HS512", Update(AdminClaims, [exp |-> IntV(now + 1)])),
      Jwt(SECRET_KEY, ALGORITHM, Update(AdminClaims, [exp |-> IntV(now - 1)])),
      Jwt(SECRET_KEY, ALGORITHM,
          [sub |-> StrV(OtherEmail), role |-> StrV("user"), exp |-> IntV(now - 1)]),
      Jwt(SECRET_KEY, ALGORITHM,
          [sub |-> NumV(<<"7">>), role |-> StrV("admin"), exp |-> IntV(now + 1)]),
      Jwt(SECRET_KEY, ALGORITHM,
          [sub |-> StrV(OtherEmail), role |-> StrV("admin"), exp |-> IntV(now + 1)]),
      Jwt(SECRET_KEY, ALGORITHM,
          [sub |-> StrV(UpperAdmin), role |-> StrV("admin"), exp |-> IntV(now + 1)]),
      Jwt(SECRET_KEY, ALGORITHM,
          [sub |-> StrV(ADMIN_EMAIL), role |-> StrV("user"), exp |-> IntV(now + 1)]),
      Jwt(SECRET_KEY, ALGORITHM, [role |-> StrV("admin"), exp |-> IntV(now + 1)]),
      Jwt(SECRET_KEY, ALGORITHM, [sub |-> StrV(ADMIN_EMAIL), exp |-> IntV(now + 1)]),
      Jwt(SECRET_KEY, ALGORITHM, AdminClaims),
      Jwt(SECRET_KEY, ALGORITHM, Update(AdminClaims, [exp |-> IntV(now)])) }

BearerSp == <<"B","e","a","r","e","r"," ">>

\* Ways of writing the scheme before a token
Schemes ==
    { BearerSp,
      Bearer,
      <<"B","E","A","R","E","R"," ">>,
      <<"B","e","a","r","e","r">>,
      <<"B","e","a","r","e","r"," "," ">>,
      <<"B","a","s","i","c"," ">>,
      <<"T","o","k","e","n"," ","x"," ">> }

\* Every Authorization header of the model
Headers ==
    {NoHeader, Header(<<>>, NoBlob), Header(BearerSp, NoBlob), Header(BearerSp, Garbage),
     Header(<<"B","e","a","r","e","r"," ","x"," ">>, NoBlob)}
    \cup {Header(s, held) : s \in Schemes}
    \cup {Header(BearerSp, t) : t \in Forged}

\* The headers of a client that either sends none or sends its token
ClientHeaders == {NoHeader, Header(BearerSp, held)}

\* ... or sends a token signed with the secret for another subject
SomeHeaders ==
    ClientHeaders \cup
    {Header(BearerSp, Jwt(SECRET_KEY, ALGORITHM,
        [sub |-> StrV(OtherEmail), role |-> StrV("admin"), exp |-> IntV(now + 1)]))}

Slugs == {"a", "b"}

ProjectA == [title |-> StrV("t1"), slug |-> StrV("a"), summary |-> StrV("s")]
ProjectA2 ==
    [title |-> StrV("t2"), slug |-> StrV("a"), summary |-> StrV("s"),
     tags |-> ListV(<<"x">>), cover |-> StrV("c")]
ProjectB == [title |-> StrV("t1"), slug |-> StrV("b"), summary |-> StrV("s")]
ProjectNoSlug == [title |-> StrV("t1"), summary |-> StrV("s")]
ProjectBadTitle == [title |-> NumV("5"), slug |-> StrV("a"), summary |-> StrV("s")]

TechA == [name |-> StrV("n")]
TechBad == [category |-> StrV("c")]

PostA == [title |-> StrV("p"), slug |-> StrV("a"), excerpt |-> StrV("e"),
          content |-> StrV("c")]
PostBad == [title |-> StrV("p"), slug |-> StrV("a"), excerpt |-> StrV("e"),
            content |-> StrV("c"), read_time |-> StrV("long")]

\* What the latest request was and what came of it
Request(route, authorization, slug, body, r) ==
    [route |-> route, authorization |-> authorization, slug |-> slug,
     body |-> body, at |-> now, status |-> r.status, result |-> r.result,
     stage |-> r.stage, read |-> r.read, admin |-> r.admin]

Respond(route, authorization, slug, body, r, cap) ==
    /\ IF r.next_id = next_id THEN TRUE ELSE r.next_id <= cap + 1
    /\ last' = Request(route, authorization, slug, body, r)
    /\ store' = r.store
    /\ next_id' = r.next_id
    /\ UNCHANGED <<now, db>>

Tick ==
    /\ now + TickStep <= MaxClock
    /\ now' = now + TickStep
    /\ UNCHANGED <<db, store, next_id, held, last>>

Login(E, P) ==
    \E e \in E, p \in P :
        LET data == [email |-> e, password |-> p]
            r == login(data)
        IN  /\ Respond("login", NoHeader, "", data, r, 0)
            /\ held' = IF r.status = 200 THEN r.result.access_token ELSE held

ListProjects ==
    /\ Respond("list_projects", NoHeader, "", <<>>, list_projects, 0)
    /\ UNCHANGED held

GetProject ==
    \E slug \in Slugs :
        /\ Respond("get_project", NoHeader, slug, <<>>, get_project(slug), 0)
        /\ UNCHANGED held

ListTech ==
    /\ Respond("list_tech", NoHeader, "", <<>>, list_tech, 0)
    /\ UNCHANGED held

ListPosts ==
    /\ Respond("list_posts", NoHeader, "", <<>>, list_posts, 0)
    /\ UNCHANGED held

CreateProject(H, B, cap) ==
    \E h \in H, b \in B :
        /\ Respond("create_project", h, "", b, create_project(h, b), cap)
        /\ UNCHANGED held

UpdateProject(H, S, B) ==
    \E h \in H, slug \in S, b \in B :
        /\ Respond("update_project", h, slug, b, update_project(h, slug, b), 0)
        /\ UNCHANGED held

DeleteProject(H, S) ==
    \E h \in H, slug \in S :
        /\ Respond("delete_project", h, slug, <<>>, delete_project(h, slug), 0)
        /\ UNCHANGED held

CreateTech(H, B, cap) ==
    \E h \in H, b \in B :
        /\ Respond("create_tech", h, "", b, create_tech(h, b), cap)
        /\ UNCHANGED held

CreatePost(H, B, cap) ==
    \E h \in H, b \in B :
        /\ Respond("create_post", h, "", b, create_post(h, b), cap)
        /\ UNCHANGED held

NoRequest ==
    [route |-> "none", authorization |-> NoHeader, slug |-> "", body |-> <<>>,
     at |-> 0, status |-> 0, result |-> <<>>, stage |-> "none", read |-> FALSE,
     admin |-> <<>>]

EmptyStore == [project |-> <<>>, techitem |-> <<>>, blogpost |-> <<>>]

Init ==
    /\ now = 0
    /\ db \in BOOLEAN
    /\ store = EmptyStore
    /\ next_id = 1
    /\ held = NoBlob
    /\ last = NoRequest

\* Every route, under a client that sends no header, its own token, or a
\* token of another subject
Next ==
    \/ Tick
    \/ Login({ADMIN_EMAIL, UpperAdmin}, {ADMIN_PASSWORD, "wrong"})
    \/ ListProjects
    \/ GetProject
    \/ ListTech
    \/ ListPosts
    \/ CreateProject(SomeHeaders, {ProjectA, ProjectNoSlug}, MaxDocs)
    \/ UpdateProject(SomeHeaders, {"a"}, {ProjectA2, ProjectBadTitle})
    \/ DeleteProject(SomeHeaders, {"a"})
    \/ CreateTech(SomeHeaders, {TechA, TechBad}, MaxDocs)
    \/ CreatePost(SomeHeaders, {PostA, PostBad}, MaxDocs)

Spec == Init /\ [][Next]_vars

\* The gate under every header (on the store as it starts), and login under
\* every pair of credentials
AuthNext ==
    \/ Tick
    \/ Login(Emails, Passwords)
    \/ CreateProject(Headers, {ProjectA}, 0)
    \/ UpdateProject(Headers, {"a"}, {ProjectA})
    \/ DeleteProject(Headers, {"a"})
    \/ CreateTech(Headers, {TechA}, 0)
    \/ CreatePost(Headers, {PostA}, 0)

AuthSpec == Init /\ [][AuthNext]_vars

\* The project routes under a client that sends no header or its own token
ProjectNext ==
    \/ Login({ADMIN_EMAIL}, {ADMIN_PASSWORD})
    \/ ListProjects
    \/ GetProject
    \/ CreateProject(ClientHeaders, {ProjectA, ProjectA2, ProjectB}, MaxProjects)
    \/ UpdateProject(ClientHeaders, Slugs, {ProjectA, ProjectA2, ProjectB})
    \/ DeleteProject(ClientHeaders, Slugs)

ProjectSpec == Init /\ [][ProjectNext]_vars

\* Documents that were in the store before the service started
SeedOld == [title |-> StrV("old"), slug |-> StrV("o"), excerpt |-> StrV("e"),
            content |-> StrV("c"), read_time |-> IntV(4),
            _id |-> OidV(101), created_at |-> DateV(0 - 1)]
SeedUndated == [title |-> StrV("undated"), slug |-> StrV("u"), excerpt |-> StrV("e"),
                content |-> StrV("c"), read_time |-> IntV(4), _id |-> OidV(102)]

PostInit ==
    /\ now = 0
    /\ db \in BOOLEAN
    /\ store \in {[EmptyStore EXCEPT !["blogpost"] = posts] :
                     posts \in {<<>>, <<SeedOld>>, <<SeedUndated, SeedOld>>}}
    /\ next_id = 1
    /\ held = NoBlob
    /\ last = NoRequest

\* The blog routes as time passes
PostNext ==
    \/ Tick
    \/ Login({ADMIN_EMAIL}, {ADMIN_PASSWORD})
    \/ ListPosts
    \/ CreatePost(ClientHeaders, {PostA}, MaxPosts)

PostSpec == PostInit /\ [][PostNext]_vars

(***************************************************************************)
(* Vocabulary of the properties, stated without the operators above        *)
(***************************************************************************)
ProtectedRoutes ==
    {"create_project", "update_project", "delete_project", "create_tech", "create_post"}

BodyRoutes == {"create_project", "update_project", "create_tech", "create_post"}

AdminIdentity == [email |-> StrV(ADMIN_EMAIL), role |-> StrV("admin")]

\* The header starts with "Bearer " in any letter case
BearerAnyCase(a) ==
    /\ a.present
    /\ Len(a.text) >= 7
    /\ a.text[1] \in {"b", "B"}
    /\ a.text[2] \in {"e", "E"}
    /\ a.text[3] \in {"a", "A"}
    /\ a.text[4] \in {"r", "R"}
    /\ a.text[5] \in {"e", "E"}
    /\ a.text[6] \in {"r", "R"}
    /\ a.text[7] = " "

\* What follows "Bearer " is exactly one token, signed with the configured
\* secret under the configured algorithm
SignedByUs(a) ==
    /\ Len(a.text) = 7
    /\ a.blob.kind = "jwt"
    /\ a.blob.key = SECRET_KEY
    /\ a.blob.alg = ALGORITHM

\* The token's expiry is before time t
ExpiredAt(b, t) == Has(b.claims, "exp") /\ b.claims["exp"].v < t

\* The token's subject is a string, when it has one
SubjectIsText(b) == Has(b.claims, "sub") => b.claims["sub"].t = "str"

\* The token names the administrator
NamesAdmin(b) ==
    /\ Has(b.claims, "sub") /\ b.claims["sub"] = StrV(ADMIN_EMAIL)
    /\ Has(b.claims, "role") /\ b.claims["role"] = StrV("admin")

\* The header passes the gate at time t
PassesGate(a, t) ==
    /\ BearerAnyCase(a)
    /\ SignedByUs(a)
    /\ ~ExpiredAt(a.blob, t)
    /\ NamesAdmin(a.blob)

\* A step that handles a request (the clock does not move in it)
RequestStep == now' = now /\ last'.route # "none"

(***************************************************************************)
(* C1: the store changes only in a step that handles a POST, PUT or DELETE *)
(* whose gate check succeeded for that request; every GET, every login and *)
(* every request the gate rejects leaves every collection unchanged.       *)
(***************************************************************************)
C1_StoreChangesOnlyWhenAuthorized ==
    [][ /\ store' # store =>
            /\ RequestStep
            /\ last'.route \in ProtectedRoutes
            /\ last'.stage # "gate"
            /\ last'.admin = AdminIdentity
            /\ PassesGate(last'.authorization, now)
        /\ (RequestStep /\ (last'.route \notin ProtectedRoutes
                            \/ last'.status \in {401, 403})) => store' = store
      ]_vars

C1_Witness ==
    /\ last.route = "create_post"
    /\ last.status = 200
    /\ Len(store["blogpost"]) = 1
    /\ PassesGate(last.authorization, last.at)

(***************************************************************************)
(* C2: the gate answers 401 when the header is absent, does not start with *)
(* "Bearer " (any case), or carries a token that fails validation (another *)
(* secret, malformed, expired), whatever subject and role the token has.   *)
(***************************************************************************)
C2_Unauthenticated(a, t) ==
    \/ ~a.present
    \/ ~BearerAnyCase(a)
    \/ ~SignedByUs(a)
    \/ ~SubjectIsText(a.blob)
    \/ ExpiredAt(a.blob, t)

C2_GateRejects401 ==
    (last.route \in ProtectedRoutes /\ C2_Unauthenticated(last.authorization, last.at))
        => (last.status = 401 /\ last.stage = "gate" /\ last.admin = <<>>)

C2_Witness ==
    /\ last.route \in ProtectedRoutes
    /\ BearerAnyCase(last.authorization)
    /\ SignedByUs(last.authorization)
    /\ ExpiredAt(last.authorization.blob, last.at)
    /\ last.authorization.blob.claims["sub"] = StrV(OtherEmail)
    /\ last.status = 401

(***************************************************************************)
(* C3 as stated: every correctly signed, unexpired token whose subject is  *)
(* not the administrator's email or whose role is not "admin" gets 403.    *)
(***************************************************************************)
C3_AsStated ==
    ( /\ last.route \in ProtectedRoutes
      /\ BearerAnyCase(last.authorization)
      /\ SignedByUs(last.authorization)
      /\ ~ExpiredAt(last.authorization.blob, last.at)
      /\ ~NamesAdmin(last.authorization.blob) )
        => last.status = 403

(***************************************************************************)
(* C3 amended: every token that passes validation (correctly signed, its   *)
(* subject a string when present, unexpired) whose subject is not the      *)
(* administrator's email or whose role is not "admin" (or is missing) gets *)
(* 403 from the gate; the gate yields {email, role} only for a token that  *)
(* names the administrator.                                                *)
(***************************************************************************)
C3_GateRejects403 ==
    /\ ( /\ last.route \in ProtectedRoutes
         /\ BearerAnyCase(last.authorization)
         /\ SignedByUs(last.authorization)
         /\ SubjectIsText(last.authorization.blob)
         /\ ~ExpiredAt(last.authorization.blob, last.at)
         /\ ~NamesAdmin(last.authorization.blob) )
           => (last.status = 403 /\ last.stage = "gate" /\ last.admin = <<>>)
    /\ (last.route \in ProtectedRoutes /\ last.admin # <<>>)
           => (last.admin = AdminIdentity /\ PassesGate(last.authorization, last.at))

C3_Witness ==
    /\ last.route \in ProtectedRoutes
    /\ SignedByUs(last.authorization)
    /\ ~Has(last.authorization.blob.claims, "sub")
    /\ last.status = 403

(***************************************************************************)
(* C4: a successful login returns a token with subject = the configured    *)
(* email (in its configured casing), role = "admin" and expiry = issuance  *)
(* time + 12 hours; sent as "Bearer <token>" before that expiry, it passes *)
(* the gate of every protected route, which yields {email, role: admin}.   *)
(***************************************************************************)
C4_LoginTokenAccepted ==
    /\ (last.route = "login" /\ last.status = 200) =>
           /\ last.result.access_token.kind = "jwt"
           /\ last.result.access_token.key = SECRET_KEY
           /\ last.result.access_token.claims =
                  [sub |-> StrV(ADMIN_EMAIL), role |-> StrV("admin"),
                   exp |-> IntV(last.at + 12 * 60)]
           /\ held = last.result.access_token
    /\ ( /\ last.route \in ProtectedRoutes
         /\ held # NoBlob
         /\ last.authorization = Header(BearerSp, held)
         /\ last.at < held.claims["exp"].v )
           => (last.stage # "gate" /\ last.admin = AdminIdentity)
    /\ held # NoBlob =>
           (held.claims["exp"].v - 12 * 60) \in 0..now

C4_Witness ==
    /\ last.route = "create_tech"
    /\ held # NoBlob
    /\ last.authorization = Header(BearerSp, held)
    /\ last.at > held.claims["exp"].v - 12 * 60
    /\ last.at < held.claims["exp"].v
    /\ last.status = 200
    /\ last.admin = AdminIdentity

(***************************************************************************)
(* C5: login answers 200 with {access_token, token_type: "bearer"} exactly *)
(* when the email equals the administrator's regardless of letter case and *)
(* the password is the administrator's; otherwise 401 and no token.        *)
(***************************************************************************)
SameLetter(x, y) ==
    x = y \/ \E k \in DOMAIN Upper : {x, y} = {Upper[k], Lower[k]}

SameIgnoringCase(a, b) ==
    Len(a) = Len(b) /\ \A i \in DOMAIN a : SameLetter(a[i], b[i])

C5_LoginExactlyForAdmin ==
    last.route = "login" =>
        IF SameIgnoringCase(last.body.email, ADMIN_EMAIL)
           /\ last.body.password = ADMIN_PASSWORD
        THEN /\ last.status = 200
             /\ DOMAIN last.result = {"access_token", "token_type"}
             /\ last.result.token_type = "bearer"
             /\ last.result.access_token.kind = "jwt"
        ELSE /\ last.status = 401
             /\ ~Has(last.result, "access_token")

C5_Witness ==
    /\ last.route = "login"
    /\ last.body.email = UpperAdmin
    /\ last.body.password = ADMIN_PASSWORD
    /\ last.status = 200

(***************************************************************************)
(* C6 as stated: after any authorized POST /api/projects with body P       *)
(* succeeds, GET /api/projects/{P.slug} returns 200 with no `_id`, a       *)
(* non-empty `id` and every field of P with the submitted value.           *)
(***************************************************************************)
RoundTrip(P) ==
    LET got == get_project(P["slug"].v)
    IN  /\ got.status = 200
        /\ ~Has(got.result, "_id")
        /\ Has(got.result, "id")
        /\ got.result["id"].t = "str"
        /\ got.result["id"].v # ""
        /\ \A f \in DOMAIN P : Has(got.result, f) /\ got.result[f] = P[f]

Created == last.route = "create_project" /\ last.status = 200

C6_AsStated == Created => RoundTrip(last.body)

(***************************************************************************)
(* C6 amended: after an authorized POST /api/projects with body P          *)
(* succeeds, and while the created project is the only one with slug       *)
(* P.slug, GET /api/projects/{P.slug} returns 200 with no `_id`, a         *)
(* non-empty string `id` and every field of P with the submitted value.    *)
(***************************************************************************)
OnlyOneWithSlug(slug) ==
    Cardinality({i \in DOMAIN store["project"] :
                    store["project"][i]["slug"] = slug}) = 1

C6_RoundTripUniqueSlug ==
    (Created /\ OnlyOneWithSlug(last.body["slug"])) => RoundTrip(last.body)

C6_Witness ==
    /\ Created
    /\ last.body = ProjectA2
    /\ OnlyOneWithSlug(last.body["slug"])
    /\ get_project("a").result["cover"] = StrV("c")

(***************************************************************************)
(* C7: with n stored posts of distinct `created_at` (a post without one    *)
(* counting as created at the time of the request), GET /api/posts returns *)
(* exactly min(n, 3) posts, those with the largest `created_at`, most      *)
(* recent first, each with `_id` removed and `id` present.                 *)
(***************************************************************************)
CreatedAt(d, t) == IF Has(d, "created_at") THEN d["created_at"].v ELSE t

\* r is the API form of the stored post d
ApiFormOf(r, d) ==
    /\ ~Has(r, "_id")
    /\ Has(r, "id")
    /\ r["id"] = StrV(ToString(d["_id"].v))
    /\ DOMAIN r = (DOMAIN d \ {"_id"}) \cup {"id"}
    /\ \A f \in DOMAIN d \ {"_id"} : r[f] = d[f]

C7_LatestThreePosts ==
    LET posts == store["blogpost"]
        n == Len(posts)
        res == last.result
        key(d) == CreatedAt(d, last.at)
        returned == {i \in DOMAIN posts : \E k \in DOMAIN res : ApiFormOf(res[k], posts[i])}
    IN  ( /\ last.route = "list_posts"
          /\ db
          /\ \A i, j \in DOMAIN posts : i # j => key(posts[i]) # key(posts[j]) )
        => /\ last.status = 200
           /\ Len(res) = IF n < 3 THEN n ELSE 3
           /\ Cardinality(returned) = Len(res)
           /\ \A k \in DOMAIN res : \E i \in DOMAIN posts : ApiFormOf(res[k], posts[i])
           /\ \A k \in 1..(Len(res) - 1) : key(res[k]) > key(res[k + 1])
           /\ \A i \in returned, j \in DOMAIN posts \ returned :
                  key(posts[i]) > key(posts[j])

C7_Witness ==
    LET posts == store["blogpost"]
    IN  /\ last.route = "list_posts"
        /\ db
        /\ Len(posts) >= 5
        /\ \A i, j \in DOMAIN posts :
               i # j => CreatedAt(posts[i], last.at) # CreatedAt(posts[j], last.at)
        /\ Len(last.result) = 3
        /\ ~Has(last.result[1], "created_at")

(***************************************************************************)
(* C8: an authorized PUT /api/projects/{slug} with body P, the store being *)
(* configured: when no project has that slug it answers 404 and the store  *)
(* is unchanged; when one has, it answers {ok: true}, one project that had *)
(* that slug then holds P's value for every Project field (P.slug too,     *)
(* also when it differs from the path), and no other document changes.     *)
(***************************************************************************)
ProjectFields == {"title", "slug", "summary", "tags", "cover"}

ValueIn(P, f) ==
    IF Has(P, f) THEN P[f]
    ELSE IF f = "tags" THEN ListV(<<>>) ELSE None

C8_UpdateReplacesBySlug ==
    [][ ( /\ RequestStep
          /\ last'.route = "update_project"
          /\ last'.stage = "handler"
          /\ db )
        => LET old == store["project"]
               new == store'["project"]
               P == last'.body
               had == {i \in DOMAIN old : old[i]["slug"] = StrV(last'.slug)}
           IN  IF had = {}
               THEN last'.status = 404 /\ store' = store
               ELSE /\ last'.status = 200
                    /\ last'.result = [ok |-> TRUE]
                    /\ Len(new) = Len(old)
                    /\ \A c \in Collections \ {"project"} : store'[c] = store[c]
                    /\ \E i \in had :
                          /\ \A f \in ProjectFields : new[i][f] = ValueIn(P, f)
                          /\ new[i]["_id"] = old[i]["_id"]
                          /\ \A j \in DOMAIN old \ {i} : new[j] = old[j]
      ]_vars

C8_Witness ==
    /\ last.route = "update_project"
    /\ last.status = 200
    /\ last.slug = "a"
    /\ last.body = ProjectB
    /\ Len(store["project"]) = 2
    /\ \E i \in DOMAIN store["project"] :
           /\ store["project"][i]["slug"] = StrV("b")
           /\ Has(store["project"][i], "updated_at")

(***************************************************************************)
(* C9: an authorized DELETE /api/projects/{slug}, the store being          *)
(* configured: for a slug no project has it answers {deleted: 0} normally  *)
(* and the store is unchanged; for a slug some project has it removes      *)
(* exactly one project with that slug and answers {deleted: 1}.            *)
(***************************************************************************)
C9_DeleteOneBySlug ==
    [][ ( /\ RequestStep
          /\ last'.route = "delete_project"
          /\ last'.stage = "handler"
          /\ db )
        => LET old == store["project"]
               new == store'["project"]
               had == {i \in DOMAIN old : old[i]["slug"] = StrV(last'.slug)}
           IN  /\ last'.status = 200
               /\ last'.result["deleted"] \in {0, 1}
               /\ \A c \in Collections \ {"project"} : store'[c] = store[c]
               /\ IF had = {}
                  THEN last'.result = [deleted |-> 0] /\ store' = store
                  ELSE /\ last'.result = [deleted |-> 1]
                       /\ \E i \in had : new = RemoveAt(old, i)
      ]_vars

C9_Witness ==
    /\ last.route = "delete_project"
    /\ last.status = 200
    /\ last.result = [deleted |-> 1]
    /\ Len(store["project"]) = 1
    /\ store["project"][1]["slug"] = StrV(last.slug)

(***************************************************************************)
(* C10 as stated: on a protected route that takes a body, a body with a    *)
(* required field missing or of the wrong type is rejected as a validation *)
(* failure whatever the Authorization header is; the gate does not decide. *)
(***************************************************************************)
Malformed(body) == body \in {ProjectNoSlug, ProjectBadTitle, TechBad, PostBad}

C10_AsStated ==
    (last.route \in BodyRoutes /\ Malformed(last.body))
        => (last.status = 422 /\ last.stage = "validation")

(***************************************************************************)
(* C10 amended: on a protected route that takes a body, a body with a      *)
(* required field missing or of the wrong type never reaches the store     *)
(* (neither read nor written); the gate runs first, so the request gets    *)
(* the gate's 401 or 403 when the gate rejects it, and is rejected as a    *)
(* validation failure exactly when the gate accepts it.                    *)
(***************************************************************************)
C10_MalformedNeverReachesStore ==
    [][ (RequestStep /\ last'.route \in BodyRoutes /\ Malformed(last'.body))
        => /\ store' = store
           /\ next_id' = next_id
           /\ ~last'.read
           /\ IF PassesGate(last'.authorization, now)
              THEN last'.status = 422 /\ last'.stage = "validation"
              ELSE last'.status \in {401, 403} /\ last'.stage = "gate"
      ]_vars

C10_Witness ==
    /\ last.route = "update_project"
    /\ last.body = ProjectBadTitle
    /\ PassesGate(last.authorization, last.at)
    /\ Len(store["project"]) = 1
    /\ last.status = 422

====
